---- MODULE Spec2Model ----
(***************************************************************************)
(* strategyQAConfig (examples/rap_strategyQA/search_config.py): the search *)
(* configuration of the RAP StrategyQA reasoner.  The model covers         *)
(* update_example, get_actions (prompt assembly, the batched generation    *)
(* loop, post-processing, order-preserving deduplication), calculate_reward *)
(* and reward.                                                              *)
(*                                                                          *)
(* Text is a sequence of tokens (a token is a TLA+ string standing for one  *)
(* character or one template literal), so concatenation is \o and strip,    *)
(* lower, "in" and slicing are computed on the sequence.  An Optional value *)
(* is a sequence of length at most one: None is << >>, a present value x is *)
(* << x >>.                                                                 *)
(*                                                                          *)
(* A probability is an index m in 0..Scale standing for (m/Scale)^AlphaDen  *)
(* and reward_alpha is an index k in 0..AlphaDen standing for k/AlphaDen,   *)
(* so x ** alpha is exactly (m/Scale)^k and a reward is an integer          *)
(* numerator over Scale^AlphaDen.                                           *)
(***************************************************************************)
EXTENDS Integers, Sequences, FiniteSets, TLC

MaxNActions == 3
MaxBatchSize == 2
MaxDepthLimit == 2
MaxStateLen == 1
Scale == 3
AlphaDen == 2

VARIABLES
    n_actions, batch_size, temperature, depth_limit,
    force_terminating_on_depth_limit,
    force_overall_prompt_on_overall_question,
    force_overall_question_on_overall_prompt,
    reward_alpha, reward_confidence_default,
    example, overall_question,
    pc, state, model_input, idx, outputs, processed, calls, ret

config == << n_actions, batch_size, temperature, depth_limit,
             force_terminating_on_depth_limit,
             force_overall_prompt_on_overall_question,
             force_overall_question_on_overall_prompt,
             reward_alpha, reward_confidence_default >>

self == << example, overall_question >>

frame == << pc, state, model_input, idx, outputs, processed, calls >>

vars == << config, self, frame, ret >>

None == << >>

Some(x) == << x >>

----------------------------------------------------------------------------
(* Text primitives. *)

Whitespace == { " ", "\n" }

LowerTok(c) == CASE c = "A" -> "a"
                 [] c = "Now" -> "now"
                 [] OTHER -> c

lower(s) == [ i \in 1..Len(s) |-> LowerTok(s[i]) ]

RECURSIVE lstrip(_)
lstrip(s) == IF s # << >> /\ Head(s) \in Whitespace THEN lstrip(Tail(s)) ELSE s

RECURSIVE rstrip(_)
rstrip(s) == IF s # << >> /\ s[Len(s)] \in Whitespace
             THEN rstrip(SubSeq(s, 1, Len(s) - 1)) ELSE s

strip(s) == rstrip(lstrip(s))

Contains(sub, s) ==
    \E i \in 0..(Len(s) - Len(sub)) : SubSeq(s, i + 1, i + Len(sub)) = sub

StartsWith(s, p) == Len(p) <= Len(s) /\ SubSeq(s, 1, Len(p)) = p

Digit(i) == << "1", "2", "3", "4", "5", "6", "7", "8", "9" >>[i]

----------------------------------------------------------------------------
(* The prompt templates (read-only configuration). *)

overall_question_prefix == << "Now", ":" >>

decompose_prompt == << "<decompose_prompt>" >>

prompt_input == << "<input>" >>

question_prefix == << "<question_prefix>" >>

subquestion_prefix(i) == << "<subquestion_prefix>", Digit(i) >>

answer_prefix(i) == << "<answer_prefix>", Digit(i) >>

----------------------------------------------------------------------------
(* Inputs. *)

Examples == { << "A" >>, << "x", "x" >> }

RawOutputs == { << " ", "a" >>,
                << "Now", ":", "x" >>,
                << " " >>,
                << "\"", "a", "\"", ",", "x" >> }

Entries == { << << "x" >>, << "y" >>, 1 >> }

States == UNION { [ 1..n -> Entries ] : n \in 0..MaxStateLen }

Probs == 0..Scale

Temperatures == { 8 }

----------------------------------------------------------------------------
(* Prompt assembly, lines 60-73. *)

at_depth_limit(st) ==
    force_terminating_on_depth_limit /\ Len(st) + 1 >= depth_limit

RECURSIVE HistoryLines(_, _)
HistoryLines(st, n) ==
    IF n = 0 THEN << >>
    ELSE HistoryLines(st, n - 1)
         \o subquestion_prefix(n) \o << " " >> \o st[n][1] \o << "\n" >>
         \o answer_prefix(n) \o << " " >> \o st[n][2] \o << "\n" >>

BuildPrompt(st) ==
    ( IF Len(st) = 0
      THEN decompose_prompt \o << "\n\nQ: " >> \o overall_question[1]
           \o << "\nA: To answer the question \"" >> \o overall_question[1]
           \o << "\", we need to know:" >>
      ELSE prompt_input \o question_prefix \o example \o << "\n" >>
           \o HistoryLines(st, Len(st)) \o subquestion_prefix(Len(st) + 1) )
    \o ( IF at_depth_limit(st) THEN << " " >> \o overall_question_prefix ELSE << >> )

----------------------------------------------------------------------------
(* The generation loop, lines 75-84. *)

EffNActionsConfigured(st) == n_actions

EffNActions(st) == IF at_depth_limit(st) THEN 1 ELSE n_actions

EffTemperature(st) == IF at_depth_limit(st) THEN 0 ELSE temperature

NSamplesFullBatch(n, i) == batch_size

NSamples(n, i) == IF n - i < batch_size THEN n - i ELSE batch_size

AccumulateInFront(outs, texts) == texts \o outs

Accumulate(outs, texts) == outs \o texts

----------------------------------------------------------------------------
(* Post-processing, lines 86-111. *)

RECURSIVE Split(_)
Split(s) ==
    IF s = << >> THEN << >>
    ELSE IF \E i \in 1..Len(s) : s[i] = ","
         THEN LET i == CHOOSE k \in 1..Len(s) :
                           s[k] = "," /\ \A j \in 1..(k - 1) : s[j] # ","
              IN  << SubSeq(s, 1, i - 1) >> \o Split(SubSeq(s, i + 1, Len(s)))
         ELSE << s >>

extract_subquestions(output) ==
    LET items == Split(output)
        kept  == SelectSeq(items, LAMBDA q : strip(q) # << >>)
    IN  [ i \in 1..Len(kept) |-> strip(kept[i]) ]

(* Lines 89-97 for one output: None stands for the IndexError of *)
(* subqs_list[0] or q1[0].                                        *)
FirstSubquestion(output) ==
    LET subqs_list == extract_subquestions(output)
    IN  IF subqs_list = << >> \/ subqs_list[1] = << >> THEN None
        ELSE LET q1 == subqs_list[1]
                 qa == IF q1[1] # "\"" THEN << "\"" >> \o q1 ELSE q1
                 qb == IF qa[Len(qa)] # "\"" THEN qa \o << "\"" >> ELSE qa
             IN  Some(SubSeq(qb, 2, Len(qb) - 1))

Canonical == overall_question_prefix \o << " " >> \o overall_question[1]

PrefixOutputs(outs, st) ==
    IF at_depth_limit(st)
    THEN [ i \in 1..Len(outs) |-> overall_question_prefix \o << " " >> \o outs[i] ]
    ELSE outs

ForceOverallQuestionSkipped(outs) == outs

ForceOverallQuestion(outs) ==
    IF force_overall_question_on_overall_prompt
    THEN [ i \in 1..Len(outs) |->
             IF Contains(overall_question_prefix, outs[i]) THEN Canonical ELSE outs[i] ]
    ELSE outs

ForceOverallPrompt(outs) ==
    IF force_overall_prompt_on_overall_question
    THEN [ i \in 1..Len(outs) |->
             IF lower(overall_question[1]) = lower(outs[i]) THEN Canonical ELSE outs[i] ]
    ELSE outs

RECURSIVE FromKeys(_, _)
FromKeys(s, n) ==
    IF n = 0 THEN << >>
    ELSE LET d == FromKeys(s, n - 1)
         IN  IF \E j \in 1..Len(d) : d[j] = s[n] THEN d ELSE Append(d, s[n])

KeepDuplicates(s) == s

RECURSIVE ToKeys(_, _)
ToKeys(s, n) ==
    IF n > Len(s) THEN << >>
    ELSE LET d == ToKeys(s, n + 1)
         IN  IF \E j \in 1..Len(d) : d[j] = s[n] THEN d ELSE << s[n] >> \o d

KeepLastOccurrence(s) == ToKeys(s, 1)

dict_fromkeys(s) == FromKeys(s, Len(s))

(* Lines 86-107: the error raised, if any, and the list handed to line 111. *)
PostProcess(outs, st) ==
    LET stripped == [ i \in 1..Len(outs) |-> strip(outs[i]) ]
        firsts   == [ i \in 1..Len(outs) |-> FirstSubquestion(stripped[i]) ]
        parsed   == IF Len(st) = 0
                    THEN [ i \in 1..Len(outs) |-> firsts[i][1] ]
                    ELSE stripped
        prefixed == PrefixOutputs(parsed, st)
    IN  IF Len(st) = 0 /\ \E i \in 1..Len(outs) : firsts[i] = None
        THEN [ error |-> "IndexError", outputs |-> << >> ]
        ELSE IF /\ force_overall_question_on_overall_prompt
                /\ overall_question = None
                /\ \E i \in 1..Len(prefixed) :
                       Contains(overall_question_prefix, prefixed[i])
        THEN [ error |-> "TypeError", outputs |-> << >> ]
        ELSE IF /\ force_overall_prompt_on_overall_question
                /\ overall_question = None
                /\ prefixed # << >>
        THEN [ error |-> "AttributeError", outputs |-> << >> ]
        ELSE [ error |-> "", outputs |-> ForceOverallPrompt(ForceOverallQuestion(prefixed)) ]

----------------------------------------------------------------------------
(* Return values: ret is what the last finished call handed its caller. *)

NoRet == [ op |-> "", args |-> << >>, status |-> "", error |-> "", value |-> << >> ]

Return(o, v) == [ NoRet EXCEPT !.op = o, !.status = "return", !.value = v ]

Raise(o, e) == [ NoRet EXCEPT !.op = o, !.status = "raise", !.error = e ]

NoFrame ==
    /\ pc' = "idle"
    /\ state' = << >>
    /\ model_input' = << >>
    /\ idx' = 0
    /\ outputs' = << >>
    /\ processed' = << >>
    /\ calls' = << >>

----------------------------------------------------------------------------
(* update_example, lines 52-57. *)

SearchConfig_update_example(text) == example' = text

update_example(text) ==
    /\ pc = "idle"
    /\ SearchConfig_update_example(text)
    /\ IF \/ force_overall_prompt_on_overall_question
          \/ force_overall_question_on_overall_prompt
       THEN overall_question' = Some(example')
       ELSE UNCHANGED overall_question
    /\ NoFrame
    /\ ret' = [ Return("update_example", << >>) EXCEPT !.args = << text >> ]
    /\ UNCHANGED config

----------------------------------------------------------------------------
(* get_actions, lines 59-112, one step per generate call. *)

GetActionsBegin(st) ==
    /\ pc = "idle"
    /\ IF Len(st) = 0 /\ overall_question = None
       THEN /\ NoFrame
            /\ ret' = Raise("get_actions", "TypeError")
       ELSE /\ pc' = "generate"
            /\ state' = st
            /\ model_input' = BuildPrompt(st)
            /\ idx' = 0
            /\ outputs' = << >>
            /\ processed' = << >>
            /\ calls' = << >>
            /\ ret' = NoRet
    /\ UNCHANGED << config, self >>

Request(n) == [ prompts     |-> [ i \in 1..n |-> model_input ],
                temperature |-> EffTemperature(state),
                eos_token_id |-> "\n" ]

Generate(texts) ==
    /\ pc = "generate"
    /\ idx < EffNActions(state)
    /\ Len(texts) = NSamples(EffNActions(state), idx)
    /\ outputs' = Accumulate(outputs, texts)
    /\ calls' = Append(calls, [ request |-> Request(Len(texts)), ok |-> TRUE, text |-> texts ])
    /\ idx' = idx + batch_size
    /\ UNCHANGED << config, self, pc, state, model_input, processed, ret >>

GenerateFailsSwallowed ==
    /\ pc = "generate"
    /\ idx < EffNActions(state)
    /\ calls' = Append(calls, [ request |-> Request(NSamples(EffNActions(state), idx)),
                                ok |-> FALSE, text |-> << >> ])
    /\ idx' = idx + batch_size
    /\ UNCHANGED << config, self, pc, state, model_input, outputs, processed, ret >>

GenerateFails ==
    /\ pc = "generate"
    /\ idx < EffNActions(state)
    /\ calls' = Append(calls, [ request |-> Request(NSamples(EffNActions(state), idx)),
                                ok |-> FALSE, text |-> << >> ])
    /\ pc' = "idle"
    /\ outputs' = << >>
    /\ ret' = Raise("get_actions", "ModelError")
    /\ UNCHANGED << config, self, state, model_input, idx, processed >>

GetActionsEnd ==
    /\ pc = "generate"
    /\ idx >= EffNActions(state)
    /\ LET r == PostProcess(outputs, state)
       IN  IF r.error # ""
           THEN /\ ret' = Raise("get_actions", r.error)
                /\ outputs' = << >>
                /\ processed' = << >>
           ELSE /\ processed' = r.outputs
                /\ outputs' = dict_fromkeys(r.outputs)
                /\ ret' = Return("get_actions", dict_fromkeys(r.outputs))
    /\ pc' = "idle"
    /\ UNCHANGED << config, self, state, model_input, idx, calls >>

----------------------------------------------------------------------------
(* calculate_reward and reward, lines 132-143. *)

RECURSIVE Pow(_, _)
Pow(b, e) == IF e = 0 THEN 1 ELSE b * Pow(b, e - 1)

calculate_reward_swapped(r_useful, r_conf) ==
    LET conf == IF r_conf = None THEN reward_confidence_default ELSE r_conf[1]
    IN  [ reward   |-> Pow(r_useful, AlphaDen - reward_alpha) * Pow(conf, reward_alpha),
          r_useful |-> r_useful,
          r_conf   |-> conf ]

calculate_reward(r_useful, r_conf) ==
    LET conf == IF r_conf = None THEN reward_confidence_default ELSE r_conf[1]
    IN  [ reward   |-> Pow(r_useful, reward_alpha) * Pow(conf, AlphaDen - reward_alpha),
          r_useful |-> r_useful,
          r_conf   |-> conf ]

reward_without_asserts(r_useful, confidence) ==
    IF r_useful = None
    THEN Raise("reward", "TypeError")
    ELSE Return("reward", calculate_reward(r_useful[1], confidence))

reward(r_useful, confidence) ==
    IF r_useful = None \/ confidence = None
    THEN Raise("reward", "AssertionError")
    ELSE Return("reward", calculate_reward(r_useful[1], confidence))

CallCalculateReward(r_useful, r_conf) ==
    /\ pc = "idle"
    /\ ret' = [ Return("calculate_reward", calculate_reward(r_useful, r_conf))
                  EXCEPT !.args = << Some(r_useful), r_conf >> ]
    /\ NoFrame
    /\ UNCHANGED << config, self >>

CallReward(r_useful, confidence) ==
    /\ pc = "idle"
    /\ ret' = [ reward(r_useful, confidence) EXCEPT !.args = << r_useful, confidence >> ]
    /\ NoFrame
    /\ UNCHANGED << config, self >>

----------------------------------------------------------------------------
(* The policy after __init__ (lines 21-50), and its callers. *)

InitSelf ==
    /\ example = << >>
    /\ overall_question = None
    /\ pc = "idle"
    /\ state = << >>
    /\ model_input = << >>
    /\ idx = 0
    /\ outputs = << >>
    /\ processed = << >>
    /\ calls = << >>
    /\ ret = NoRet

Init ==
    /\ n_actions \in 1..MaxNActions
    /\ batch_size \in 1..MaxBatchSize
    /\ temperature \in Temperatures
    /\ depth_limit \in 1..MaxDepthLimit
    /\ force_terminating_on_depth_limit \in BOOLEAN
    /\ force_overall_prompt_on_overall_question \in BOOLEAN
    /\ force_overall_question_on_overall_prompt \in BOOLEAN
    /\ reward_alpha = 1
    /\ reward_confidence_default = Scale
    /\ InitSelf

Next ==
    \/ \E text \in Examples : update_example(text)
    \/ \E st \in States : GetActionsBegin(st)
    \/ \E n \in 1..MaxBatchSize : \E texts \in [ 1..n -> RawOutputs ] : Generate(texts)
    \/ GenerateFails
    \/ GetActionsEnd

Spec == Init /\ [][Next]_vars

InitReward ==
    /\ n_actions = MaxNActions
    /\ batch_size = MaxBatchSize
    /\ temperature \in Temperatures
    /\ depth_limit = MaxDepthLimit
    /\ force_terminating_on_depth_limit = TRUE
    /\ force_overall_prompt_on_overall_question = TRUE
    /\ force_overall_question_on_overall_prompt = TRUE
    /\ reward_alpha \in 0..AlphaDen
    /\ reward_confidence_default \in Probs
    /\ InitSelf

OptProbs == { None } \cup { Some(m) : m \in Probs }

NextReward ==
    \/ \E r_useful \in OptProbs : \E confidence \in OptProbs : CallReward(r_useful, confidence)
    \/ \E r_useful \in Probs : \E r_conf \in OptProbs : CallCalculateReward(r_useful, r_conf)

SpecReward == InitReward /\ [][NextReward]_vars

----------------------------------------------------------------------------
(* Properties of get_actions. *)

Returned == ret.op = "get_actions" /\ ret.status = "return"

(* C1: the list get_actions returns holds no two equal strings. *)
C1_NoDuplicates ==
    Returned =>
        \A i, j \in 1..Len(ret.value) : i # j => ret.value[i] # ret.value[j]

C1_Witness ==
    /\ Returned
    /\ Len(ret.value) < Len(processed)
    /\ Len(ret.value) > 1

(* C2: with force_terminating_on_depth_limit set and len(state) + 1 >=     *)
(* depth_limit, the list get_actions returns holds exactly one action and   *)
(* that action starts with the overall-question prefix.                     *)
C2_DepthLimitSingleAction ==
    ( Returned /\ force_terminating_on_depth_limit /\ Len(state) + 1 >= depth_limit ) =>
        /\ Len(ret.value) = 1
        /\ StartsWith(ret.value[1], overall_question_prefix)

C2_Witness ==
    /\ Returned
    /\ force_terminating_on_depth_limit /\ Len(state) + 1 >= depth_limit
    /\ n_actions > 1
    /\ ~ force_overall_question_on_overall_prompt
    /\ Len(calls) = 1 /\ Len(calls[1].text) = 1
    /\ calls[1].request.temperature = 0

(* C3: every list get_actions returns is non-empty and no longer than the *)
(* configured n_actions.                                                   *)
C3_LengthBounds ==
    Returned => ( 1 <= Len(ret.value) /\ Len(ret.value) <= n_actions )

C3_Witness ==
    /\ Returned
    /\ n_actions > 1
    /\ Len(ret.value) = n_actions
    /\ batch_size < n_actions

(* C6: the generate calls of one get_actions carry the same prompt in every *)
(* slot, between 1 and batch_size prompts each, n_actions (1 at the depth    *)
(* limit) prompts in all, and the accumulated outputs are the calls' outputs *)
(* in call order and slot order, as one request of that size would give.     *)
RECURSIVE ConcatTexts(_, _)
ConcatTexts(cs, n) ==
    IF n = 0 THEN << >> ELSE ConcatTexts(cs, n - 1) \o cs[n].text

RECURSIVE SlotCount(_, _)
SlotCount(cs, n) ==
    IF n = 0 THEN 0 ELSE SlotCount(cs, n - 1) + Len(cs[n].request.prompts)

C6_BatchingIsOneRequest ==
    pc = "generate" =>
        /\ \A c \in 1..Len(calls) :
              /\ calls[c].ok
              /\ Len(calls[c].request.prompts) \in 1..batch_size
              /\ Len(calls[c].text) = Len(calls[c].request.prompts)
              /\ \A k \in 1..Len(calls[c].request.prompts) :
                     calls[c].request.prompts[k] = model_input
        /\ outputs = ConcatTexts(calls, Len(calls))
        /\ SlotCount(calls, Len(calls)) <= EffNActions(state)
        /\ idx >= EffNActions(state) =>
               SlotCount(calls, Len(calls)) = EffNActions(state)

C6_Witness ==
    /\ pc = "generate"
    /\ idx >= EffNActions(state)
    /\ Len(calls) = 2
    /\ Len(calls[1].text) = batch_size
    /\ Len(calls[2].text) < batch_size
    /\ calls[1].text[1] # calls[2].text[1]

(* C7: the returned list is the sequence of first occurrences of the      *)
(* post-processed outputs: it holds each of them, and a precedes b in it   *)
(* exactly when a first occurs before b first occurs.                      *)
FirstIndex(s, x) ==
    CHOOSE i \in 1..Len(s) : s[i] = x /\ \A j \in 1..(i - 1) : s[j] # x

C7_StableDeduplication ==
    Returned =>
        /\ \A i \in 1..Len(processed) : \E k \in 1..Len(ret.value) : ret.value[k] = processed[i]
        /\ \A k \in 1..Len(ret.value) : \E i \in 1..Len(processed) : processed[i] = ret.value[k]
        /\ \A k, l \in 1..Len(ret.value) :
               k < l => FirstIndex(processed, ret.value[k]) < FirstIndex(processed, ret.value[l])

C7_Witness ==
    /\ Returned
    /\ Len(processed) = 3
    /\ processed[1] = processed[3]
    /\ processed[1] # processed[2]

(* C9: with force_overall_question_on_overall_prompt set, every returned   *)
(* action that contains the overall-question prefix is the prefix, a space  *)
(* and the overall question; at most one returned action contains the       *)
(* prefix; and at the depth limit the returned list is that one string.     *)
C9_PrefixForcesCanonical ==
    ( Returned /\ force_overall_question_on_overall_prompt ) =>
        /\ \A k \in 1..Len(ret.value) :
               Contains(overall_question_prefix, ret.value[k]) => ret.value[k] = Canonical
        /\ \A k, l \in 1..Len(ret.value) :
               ( /\ Contains(overall_question_prefix, ret.value[k])
                 /\ Contains(overall_question_prefix, ret.value[l]) ) => k = l
        /\ at_depth_limit(state) => ret.value = << Canonical >>

C9_Witness ==
    /\ Returned
    /\ force_overall_question_on_overall_prompt
    /\ ~ at_depth_limit(state)
    /\ Len(calls) > 0
    /\ calls[1].text[1] = << "Now", ":", "x" >>
    /\ ret.value[1] = Canonical
    /\ Len(ret.value) > 1

(* C10: a failed generate call is the last call of its get_actions: no call *)
(* follows it, get_actions raises and returns no list, the outputs of the    *)
(* earlier batches are dropped with the frame, and no get_actions step       *)
(* writes the policy's own fields.                                           *)
C10_FailureEndsGetActions ==
    /\ [] ( \A c \in 1..Len(calls) :
               ~ calls[c].ok =>
                   /\ c = Len(calls)
                   /\ pc = "idle"
                   /\ ret.op = "get_actions"
                   /\ ret.status = "raise"
                   /\ ret.error = "ModelError"
                   /\ outputs = << >>
                   /\ processed = << >> )
    /\ [][ pc = "generate" => UNCHANGED << config, self >> ]_vars

C10_Witness ==
    /\ Len(calls) >= 2
    /\ calls[1].ok
    /\ calls[1].text # << >>
    /\ ~ calls[Len(calls)].ok
    /\ ret.status = "raise"

(* C4: after update_example(text) the captured overall question is text, *)
(* whatever the forcing flags are.                                        *)
C4_OverallQuestionRebound ==
    ret.op = "update_example" => overall_question = Some(ret.args[1])

----------------------------------------------------------------------------
(* Properties of the reward functions. *)

(* C5: reward raises the assertion error, and returns no value, whenever *)
(* r_useful or confidence is None; a missing confidence is not replaced   *)
(* by reward_confidence_default.                                          *)
C5_RewardRequiresBoth ==
    ( ret.op = "reward" /\ ( ret.args[1] = None \/ ret.args[2] = None ) ) =>
        /\ ret.status = "raise"
        /\ ret.error = "AssertionError"

C5_Witness ==
    /\ ret.op = "reward"
    /\ ret.args[1] # None
    /\ ret.args[2] = None
    /\ ret.status = "raise"

(* C8 as stated: calculate_reward(0, x) is 0 for every x > 0 and every *)
(* reward_alpha in [0, 1].                                              *)
C8_ZeroUsefulZeroReward ==
    ( /\ ret.op = "calculate_reward"
      /\ ret.args[1] = Some(0)
      /\ ret.args[2] # None
      /\ ret.args[2] # Some(0) ) => ret.value.reward = 0

(* C8 amended: calculate_reward(0, x) is 0 for every x > 0 and every *)
(* reward_alpha in (0, 1]; at reward_alpha = 0 it is x.               *)
C8_ZeroUsefulPositiveAlpha ==
    ( /\ ret.op = "calculate_reward"
      /\ ret.args[1] = Some(0)
      /\ ret.args[2] # None
      /\ ret.args[2] # Some(0) ) =>
        /\ reward_alpha > 0 => ret.value.reward = 0
        /\ reward_alpha = 0 => ret.value.reward = Pow(ret.args[2][1], AlphaDen)

C8_Witness ==
    /\ ret.op = "calculate_reward"
    /\ ret.args[1] = Some(0)
    /\ ret.args[2] = Some(Scale)
    /\ reward_alpha > 0
    /\ reward_alpha < AlphaDen
    /\ ret.value.reward = 0

====
